---- MODULE Spec2Model ----
(***************************************************************************)
(* context-tree: hierarchical lookup of context values.                    *)
(*                                                                         *)
(* State: the instance graph (context, contextType, contextResolvers of    *)
(* every instance), the module-level contextTypeResolversCache, the        *)
(* requiredContexts of the class and of the instances, the record of the   *)
(* call that is running or has just returned, and, in the recorded         *)
(* scenarios, the trail of the calls made so far.                          *)
(* Operations: ContextResolvers.addResolver / removeResolver /             *)
(* findResolver, Context.resolvers, Context.findResolver / resolve /       *)
(* resolveMaybe / checkRequired (src/index.ts), and the checkRequired of   *)
(* the repository's second copy of the module (unnamed/part_000).          *)
(*                                                                         *)
(* Specifications:                                                         *)
(*   Spec          lookups on a family of instance graphs, interleaved     *)
(*                 with addResolver / removeResolver on the tables;        *)
(*   SpecTable     one resolver table built by Context.resolvers, the      *)
(*                 calls made on it recorded;                              *)
(*   SpecChain     a chain of instances whose root holds the only          *)
(*                 resolver, mutations and resolve calls recorded;         *)
(*   SpecRequired  checkRequired on instances with requiredContexts;       *)
(*   SpecMemo      findResolver calls on a chain with typed instances,     *)
(*                 recorded, with table mutations in between;              *)
(*   SpecFrame     every operation on a graph with tables and              *)
(*                 requiredContexts, the call kept in `last`;              *)
(*   SpecLoop      the for-of loop of Context.findResolver, one iteration  *)
(*                 per step, on graphs with cycles;                        *)
(*   SpecCalls     every operation on a chain, recorded with the           *)
(*                 producers each call invoked.                            *)
(***************************************************************************)
EXTENDS Naturals, Sequences, FiniteSets, TLC

\* ------------------------------------------------------------------ bounds

\* Number of instances (IContext objects) in the graph.
NumNodes == 4
\* Most declarations an application makes in one graph: instances with a
\* contextType plus entries held in resolver tables.
MaxDecl == 2
\* Longest list handed to Context.resolvers and longest requiredContexts.
MaxList == 2

\* ------------------------------------------------------- keys and producers

NoKey == "null"

\* The context keys the application has created:
\*   k1 = new Context("Config")       k2 = k1.partial("Partial")
\*   k3 = k2.partial("Narrow")        k4 = k1.partial("Partial")
Keys == {"k1", "k2", "k3", "k4"}

\* Context.parent, as set by the constructor and by partial().
parent ==
  [k \in Keys |-> CASE k = "k1" -> NoKey
                    [] k = "k2" -> "k1"
                    [] k = "k3" -> "k2"
                    [] k = "k4" -> "k1"]

\* Context.name: a label; k2 and k4 are distinct keys with the same name.
name ==
  [k \in Keys |-> CASE k = "k1" -> "Config"
                    [] k = "k2" -> "Partial"
                    [] k = "k3" -> "Narrow"
                    [] k = "k4" -> "Partial"]

\* A Resolver<T> is a function object.  fn names a producer the application
\* wrote ("f", "g"); fn = "self" is a closure () => instance made by
\* contextTypeResolver for `node`, the serial-th it made for that instance
\* (two closures of one instance are two objects); Null is the absent
\* resolver (null / undefined).
Null == [fn |-> "null", node |-> 0, serial |-> 0]
Producers == {"f", "g"}
Fn(p) == [fn |-> p, node |-> 0, serial |-> 0]
Closure(n, s) == [fn |-> "self", node |-> n, serial |-> s]

\* Values a call yields.  f returns the string "v1", g returns the empty
\* string (a falsy value), a closure returns its instance.
Undefined == [type |-> "undefined", str |-> "", node |-> 0]
Str(s) == [type |-> "string", str |-> s, node |-> 0]
Obj(n) == [type |-> "object", str |-> "", node |-> n]
Thrown(msg) == [type |-> "error", str |-> msg, node |-> 0]

\* resolver(): the call of a producer.
Call(r) ==
  CASE r.fn = "self" -> Obj(r.node)
    [] r.fn = "f" -> Str("v1")
    [] r.fn = "g" -> Str("")

\* JavaScript truthiness of a value.
Truthy(v) ==
  CASE v.type = "undefined" -> FALSE
    [] v.type = "string" -> v.str # ""
    [] OTHER -> TRUE

\* ------------------------------------------------------------------- state

Nodes == 1..NumNodes

VARIABLES
  context,          \* instance.context: null, one instance, or an array
  contextType,      \* instance.contextType: a key or absent
  contextResolvers, \* instance.contextResolvers: a ContextResolvers or absent
  contextTypeResolversCache, \* WeakMap instance -> closure
  created,          \* per instance, the closures contextTypeResolver created
  requiredContexts, \* the requiredContexts of the class and of the instances
  last,             \* the call in progress, what it returned and invoked
  trail             \* the calls a scenario has made so far, oldest first

vars == <<context, contextType, contextResolvers, contextTypeResolversCache,
          created, requiredContexts, last, trail>>

\* instance.context values.
NullContext == [array |-> FALSE, nodes |-> <<>>]
Single(p) == [array |-> FALSE, nodes |-> <<p>>]
Array(ps) == [array |-> TRUE, nodes |-> ps]

\* instance.contextResolvers: absent, or a ContextResolvers whose private
\* Map `resolvers` is a set of entries [context, resolver].
NoTable == [present |-> FALSE, resolvers |-> {}]
Table(m) == [present |-> TRUE, resolvers |-> m]

Range(s) == {s[i] : i \in 1..Len(s)}

\* ------------------------------------------------------- ContextResolvers

\* Map.prototype.get: the value stored under key k, or undefined.
MapGet(m, k) ==
  IF \E e \in m : e.context = k
    THEN (CHOOSE e \in m : e.context = k).resolver
    ELSE Null

\* Faulty variant: the map is keyed by the key's name, not by the key.
MapSetByName(m, k, r) ==
  {e \in m : name[e.context] # name[k]} \cup {[context |-> k, resolver |-> r]}

\* Map.prototype.set: the entry for k is replaced, or added.
MapSet(m, k, r) ==
  {e \in m : e.context # k} \cup {[context |-> k, resolver |-> r]}

\* Map.prototype.delete.
MapDelete(m, k) == {e \in m : e.context # k}

\* ContextResolvers.addResolver(resolver), resolver = k.resolvesTo(r).
addResolver(m, k, r) == MapSet(m, k, r)

\* Faulty variant: the entry is left in the table.
removeResolverKeeping(m, k) == m

\* Faulty variant: the whole map is cleared.
removeResolverClearing(m, k) == {}

\* ContextResolvers.removeResolver(context).
removeResolver(m, k) == MapDelete(m, k)

\* Faulty variant: the broadest key of the chain that has an entry wins.
RECURSIVE tableFindResolverBroadest(_, _)
tableFindResolverBroadest(m, k) ==
  IF k = NoKey
    THEN Null
    ELSE LET broader == tableFindResolverBroadest(m, parent[k])
         IN IF broader # Null THEN broader ELSE MapGet(m, k)

\* Faulty variant: the table is asked for the exact key only.
tableFindResolverExact(m, k) == IF k = NoKey THEN Null ELSE MapGet(m, k)

\* ContextResolvers.findResolver(_context): walks _context's parent chain.
RECURSIVE tableFindResolver(_, _)
tableFindResolver(m, k) ==
  IF k = NoKey
    THEN Null
    ELSE LET resolver == MapGet(m, k)
         IN IF resolver # Null THEN resolver
            ELSE tableFindResolver(m, parent[k])

\* Context.resolvers(list): a new table, the list's resolvers added in order.
RECURSIVE resolversFrom(_, _)
resolversFrom(m, list) ==
  IF list = <<>> THEN m
  ELSE resolversFrom(addResolver(m, Head(list).context, Head(list).resolver),
                     Tail(list))

resolvers(list) == resolversFrom({}, list)

\* ---------------------------------------------------------------- Context

\* Faulty variant: the cache is not consulted, a new closure is made and
\* stored at every match.
RECURSIVE contextTypeResolverFresh(_, _, _, _)
contextTypeResolverFresh(k, instance, cache, n) ==
  IF k = NoKey
    THEN [resolver |-> Null, cache |-> cache, created |-> n]
    ELSE IF contextType[instance] = k
      THEN LET instanceResolver == Closure(instance, n[instance] + 1)
           IN [resolver |-> instanceResolver,
               cache |-> [cache EXCEPT ![instance] = instanceResolver],
               created |-> [n EXCEPT ![instance] = @ + 1]]
      ELSE contextTypeResolverFresh(parent[k], instance, cache, n)

\* Faulty variant: the walk climbs from the instance's contextType, so an
\* instance of a narrower type satisfies a broader key.
contextTypeResolverClimbingType(k, instance, cache, n) ==
  LET RECURSIVE onChain(_)
      onChain(t) == t # NoKey /\ (t = k \/ onChain(parent[t]))
  IN IF k # NoKey /\ onChain(contextType[instance])
       THEN IF cache[instance] # Null
         THEN [resolver |-> cache[instance], cache |-> cache, created |-> n]
         ELSE LET instanceResolver == Closure(instance, n[instance] + 1)
              IN [resolver |-> instanceResolver,
                  cache |-> [cache EXCEPT ![instance] = instanceResolver],
                  created |-> [n EXCEPT ![instance] = @ + 1]]
       ELSE [resolver |-> Null, cache |-> cache, created |-> n]

\* Context.contextTypeResolver(instance), `this` = k: walks k's parent chain
\* and, when instance.contextType is on it, returns the closure cached for
\* the instance, creating and caching it first when there is none.
\* Yields the resolver and the cache and closure count after the call.
RECURSIVE contextTypeResolver(_, _, _, _)
contextTypeResolver(k, instance, cache, n) ==
  IF k = NoKey
    THEN [resolver |-> Null, cache |-> cache, created |-> n]
    ELSE IF contextType[instance] = k
      THEN IF cache[instance] # Null
        THEN [resolver |-> cache[instance], cache |-> cache, created |-> n]
        ELSE LET instanceResolver == Closure(instance, n[instance] + 1)
             IN [resolver |-> instanceResolver,
                 cache |-> [cache EXCEPT ![instance] = instanceResolver],
                 created |-> [n EXCEPT ![instance] = @ + 1]]
      ELSE contextTypeResolver(parent[k], instance, cache, n)

\* Faulty variant: the queue is an array, an instance is pushed every time
\* it is met.
SetAddPush(queue, x) == Append(queue, x)

\* Set.prototype.add on the BFS queue: insertion order, no duplicates.
SetAdd(queue, x) == IF x \in Range(queue) THEN queue ELSE Append(queue, x)

RECURSIVE SetAddAll(_, _)
SetAddAll(queue, xs) ==
  IF xs = <<>> THEN queue ELSE SetAddAll(SetAdd(queue, Head(xs)), Tail(xs))

\* Faulty variant: depth first, the parents are put right behind `instance`.
EnqueueDepthFirst(queue, instance) ==
  LET at == CHOOSE i \in 1..Len(queue) : queue[i] = instance
      fresh == SelectSeq(context[instance].nodes,
                         LAMBDA x : x \notin Range(queue))
  IN SubSeq(queue, 1, at) \o fresh \o SubSeq(queue, at + 1, Len(queue))

\* Faulty variant: an array of parents is walked from its end.
EnqueueReversed(queue, instance) ==
  LET ctx == context[instance]
      n == Len(ctx.nodes)
  IN SetAddAll(queue, [i \in 1..n |-> ctx.nodes[n + 1 - i]])

\* Faulty variant: of an array of parents only the first is followed.
EnqueueFirstParent(queue, instance) ==
  LET ctx == context[instance]
  IN IF ctx.nodes = <<>> THEN queue ELSE SetAdd(queue, ctx.nodes[1])

\* Faulty variant: the queue is an array and the parents are pushed
\* whether or not they are in it.
EnqueuePushing(queue, instance) == queue \o context[instance].nodes

\* The loop body's tail: the parents of `instance` are added to the queue.
Enqueue(queue, instance) ==
  LET ctx == context[instance]
  IN IF ctx = NullContext THEN queue
     ELSE IF ctx.array THEN SetAddAll(queue, ctx.nodes)
     ELSE SetAdd(queue, ctx.nodes[1])

\* Faulty variant: the table is asked before the contextType.
matchAtTableFirst(k, instance, cache, n) ==
  LET byTable ==
        IF contextResolvers[instance].present
          THEN tableFindResolver(contextResolvers[instance].resolvers, k)
          ELSE Null
  IN IF byTable # Null
       THEN [resolver |-> byTable, cache |-> cache, created |-> n]
       ELSE contextTypeResolver(k, instance, cache, n)

\* The resolver of one instance, as the loop body computes it:
\* this.contextTypeResolver(instance) ??
\*   instance.contextResolvers?.findResolver(this)
matchAt(k, instance, cache, n) ==
  LET byType == contextTypeResolver(k, instance, cache, n)
  IN IF byType.resolver # Null THEN byType
     ELSE IF contextResolvers[instance].present
       THEN [byType EXCEPT !.resolver =
               tableFindResolver(contextResolvers[instance].resolvers, k)]
       ELSE byType

\* The for-of loop of Context.findResolver over bfsQueue, at position i.
\* examined: the instances the loop body ran for, in order.
RECURSIVE bfs(_, _, _, _, _)
bfs(k, queue, i, cache, n) ==
  IF i > Len(queue)
    THEN [resolver |-> Null, cache |-> cache, created |-> n,
          examined |-> queue]
    ELSE LET instance == queue[i]
             found == matchAt(k, instance, cache, n)
         IN IF found.resolver # Null
              THEN found @@ [examined |-> SubSeq(queue, 1, i)]
              ELSE bfs(k, Enqueue(queue, instance), i + 1, cache, n)

\* Context.findResolver(startInstance), `this` = k.
findResolver(k, startInstance, cache, n) ==
  bfs(k, SetAdd(<<>>, startInstance), 1, cache, n)

\* Faulty variant: a value once resolved for a key and an instance is kept
\* and returned by the later calls.
resolveRemembering(k, instance, cache, n) ==
  LET found == findResolver(k, instance, cache, n)
      kept == {i \in 1..Len(trail) :
                 /\ trail[i].op = "resolve"
                 /\ trail[i].context = k
                 /\ trail[i].instance = instance
                 /\ trail[i].value.type # "error"}
  IN found @@
     [value |-> IF kept # {} THEN trail[CHOOSE i \in kept : TRUE].value
                ELSE IF found.resolver # Null THEN Call(found.resolver)
                ELSE Thrown("Cannot find resolver for context " \o name[k]),
      invoked |-> IF kept = {} /\ found.resolver # Null
                    THEN <<found.resolver>> ELSE <<>>]

\* Context.resolve(instance): the value, or the thrown Error.
resolve(k, instance, cache, n) ==
  LET found == findResolver(k, instance, cache, n)
  IN found @@
     [value |-> IF found.resolver # Null THEN Call(found.resolver)
                ELSE Thrown("Cannot find resolver for context " \o name[k]),
      invoked |-> IF found.resolver # Null THEN <<found.resolver>> ELSE <<>>]

\* Faulty variant: the value a producer returned is kept, and a later
\* resolveMaybe that finds the same producer returns the kept value without
\* calling it.
resolveMaybeCached(k, instance, cache, n) ==
  LET found == findResolver(k, instance, cache, n)
      kept == {i \in 1..Len(trail) :
                 /\ trail[i].op \in {"resolve", "resolveMaybe"}
                 /\ trail[i].resolver # Null
                 /\ trail[i].resolver = found.resolver}
  IN found @@
     [value |-> IF kept # {} THEN trail[CHOOSE i \in kept : TRUE].value
                ELSE IF found.resolver # Null THEN Call(found.resolver)
                ELSE Undefined,
      invoked |-> IF kept = {} /\ found.resolver # Null
                    THEN <<found.resolver>> ELSE <<>>]

\* Faulty variant: resolveMaybe throws like resolve.
resolveMaybeThrowing(k, instance, cache, n) == resolve(k, instance, cache, n)

\* Context.resolveMaybe(instance): the value, or undefined.
resolveMaybe(k, instance, cache, n) ==
  LET found == findResolver(k, instance, cache, n)
  IN found @@
     [value |-> IF found.resolver # Null THEN Call(found.resolver)
                ELSE Undefined,
      invoked |-> IF found.resolver # Null THEN <<found.resolver>> ELSE <<>>]

\* instance.requiredContexts and constructor.requiredContexts: absent, or
\* an array of keys.
Absent == [present |-> FALSE, list |-> <<>>]
Required(list) == [present |-> TRUE, list |-> list]

\* constructor.name of the instances.
ClassName == "Model"

\* Array.prototype.join(", ") of the names of a list of keys.
RECURSIVE JoinNames(_)
JoinNames(list) ==
  IF list = <<>> THEN ""
  ELSE IF Len(list) = 1 THEN name[list[1]]
  ELSE name[list[1]] \o ", " \o JoinNames(Tail(list))

\* requiredContexts.filter((context) => !context.findResolver(instance)),
\* the calls made in list order, each seeing the cache the one before left.
RECURSIVE filterMissing(_, _, _, _)
filterMissing(list, instance, cache, n) ==
  IF list = <<>>
    THEN [missing |-> <<>>, cache |-> cache, created |-> n, invoked |-> <<>>]
    ELSE LET found == findResolver(Head(list), instance, cache, n)
             rest == filterMissing(Tail(list), instance, found.cache,
                                   found.created)
         IN IF found.resolver = Null
              THEN [rest EXCEPT !.missing = <<Head(list)>> \o rest.missing]
              ELSE rest

\* The same filter in unnamed/part_000:
\* requiredContexts.filter((context) => !context.resolveMaybe(instance)).
RECURSIVE filterMissingByValue(_, _, _, _)
filterMissingByValue(list, instance, cache, n) ==
  IF list = <<>>
    THEN [missing |-> <<>>, cache |-> cache, created |-> n, invoked |-> <<>>]
    ELSE LET got == resolveMaybe(Head(list), instance, cache, n)
             rest == filterMissingByValue(Tail(list), instance, got.cache,
                                          got.created)
             all == [rest EXCEPT !.invoked = got.invoked \o rest.invoked]
         IN IF ~Truthy(got.value)
              THEN [all EXCEPT !.missing = <<Head(list)>> \o all.missing]
              ELSE all

\* What checkRequired does once the missing contexts are known.
Report(filtered) ==
  filtered @@
  [value |-> IF Len(filtered.missing) > 0
               THEN Thrown("Missing required contexts for instance of class '"
                           \o ClassName \o "': " \o JoinNames(filtered.missing))
               ELSE Undefined]

\* instance.requiredContexts ?? constructor?.requiredContexts
requiredContextsOf(own, class) == IF own.present THEN own ELSE class

\* Context.checkRequired(instance) of src/index.ts.
checkRequired(instance, own, class, cache, n) ==
  LET required == requiredContextsOf(own, class)
  IN IF required.present
       THEN Report(filterMissing(required.list, instance, cache, n))
       ELSE [missing |-> <<>>, cache |-> cache, created |-> n,
             invoked |-> <<>>, value |-> Undefined]

\* Context.checkRequired(instance) of unnamed/part_000.
checkRequiredByValue(instance, own, class, cache, n) ==
  LET required == requiredContextsOf(own, class)
  IN IF required.present
       THEN Report(filterMissingByValue(required.list, instance,
                                        cache, n))
       ELSE [missing |-> <<>>, cache |-> cache, created |-> n,
             invoked |-> <<>>, value |-> Undefined]

\* ------------------------------------------------------------ initial states

\* The context an application gives instance n: instances are numbered from
\* the leaves up; the last is the root, and any other has the next instance
\* as its parent or the next two, in either order, as its parents.
ContextChoices(n) ==
  IF n = NumNodes THEN {NullContext}
  ELSE IF n + 1 = NumNodes THEN {Single(n + 1)}
  ELSE {Single(n + 1), Array(<<n + 1, n + 2>>), Array(<<n + 2, n + 1>>)}

\* contextResolvers is optional: every second instance owns a table.
Owners == {n \in Nodes : n % 2 = 0}

\* One declaration of the application: `contextType = k` on an instance, or
\* one k.resolvesTo(p) in the list the instance hands to Context.resolvers.
TypeDecls == [kind : {"type"}, node : Nodes, context : Keys, fn : {"null"}]
EntryDecls == [kind : {"entry"}, node : Owners, context : Keys, fn : Producers]
Decls == TypeDecls \cup EntryDecls

RECURSIVE SeqsUpTo(_, _)
SeqsUpTo(S, n) ==
  IF n = 0 THEN {<<>>}
  ELSE LET shorter == SeqsUpTo(S, n - 1)
       IN shorter \cup {Append(s, x) : s \in shorter, x \in S}

\* The keys declared as contextType of n (an instance has one contextType:
\* the last assignment stands).
RECURSIVE TypeOf(_, _)
TypeOf(ds, n) ==
  IF ds = <<>> THEN NoKey
  ELSE LET d == ds[Len(ds)]
       IN IF d.kind = "type" /\ d.node = n THEN d.context
          ELSE TypeOf(SubSeq(ds, 1, Len(ds) - 1), n)

\* The list of ContextResolver objects instance n hands to Context.resolvers.
RECURSIVE ListOf(_, _)
ListOf(ds, n) ==
  IF ds = <<>> THEN <<>>
  ELSE LET d == Head(ds)
       IN IF d.kind = "entry" /\ d.node = n
            THEN <<[context |-> d.context, resolver |-> Fn(d.fn)]>>
                 \o ListOf(Tail(ds), n)
            ELSE ListOf(Tail(ds), n)

\* No class and no instance declares requiredContexts.
NoRequired == [class |-> Absent, own |-> [n \in Nodes |-> Absent]]

\* No call yet.
Idle ==
  [op |-> "idle", context |-> NoKey, instance |-> 0, resolver |-> Null,
   value |-> Undefined, examined |-> <<>>, invoked |-> <<>>]

Init ==
  /\ context \in [Nodes -> UNION {ContextChoices(n) : n \in Nodes}]
  /\ \A n \in Nodes : context[n] \in ContextChoices(n)
  /\ \E ds \in SeqsUpTo(Decls, MaxDecl) :
       /\ contextType = [n \in Nodes |-> TypeOf(ds, n)]
       /\ contextResolvers =
            [n \in Nodes |->
               IF n \in Owners
                 THEN Table(resolvers(ListOf(ds, n)))
                 ELSE NoTable]
  /\ contextTypeResolversCache = [n \in Nodes |-> Null]
  /\ created = [n \in Nodes |-> 0]
  /\ requiredContexts = NoRequired
  /\ last = Idle
  /\ trail = <<>>

\* ------------------------------------------------------------------ actions

\* Declarations standing in the graph: typed instances and table entries.
Declared ==
  Cardinality({n \in Nodes : contextType[n] # NoKey})
  + Cardinality({ne \in Nodes \X UNION {contextResolvers[m].resolvers : m \in Nodes} :
                   ne[2] \in contextResolvers[ne[1]].resolvers})

\* instance.contextResolvers.addResolver(k.resolvesTo(p))
AddResolver(n, k, p) ==
  /\ last.op = "idle"
  /\ contextResolvers[n].present
  /\ \/ MapGet(contextResolvers[n].resolvers, k) # Null
     \/ Declared < MaxDecl
  /\ contextResolvers' =
       [contextResolvers EXCEPT
          ![n].resolvers = addResolver(contextResolvers[n].resolvers, k, Fn(p))]
  /\ UNCHANGED <<context, contextType, contextTypeResolversCache, created,
                 requiredContexts, last, trail>>

\* instance.contextResolvers.removeResolver(k)
RemoveResolver(n, k) ==
  /\ last.op = "idle"
  /\ contextResolvers[n].present
  /\ contextResolvers' =
       [contextResolvers EXCEPT
          ![n].resolvers = removeResolver(contextResolvers[n].resolvers, k)]
  /\ UNCHANGED <<context, contextType, contextTypeResolversCache, created,
                 requiredContexts, last, trail>>

\* k.findResolver(instance)
FindResolver(k, instance) ==
  /\ last.op = "idle"
  /\ LET r == findResolver(k, instance, contextTypeResolversCache, created)
     IN /\ contextTypeResolversCache' = r.cache
        /\ created' = r.created
        /\ last' = [op |-> "findResolver", context |-> k, instance |-> instance,
                    resolver |-> r.resolver, value |-> Undefined,
                    examined |-> r.examined, invoked |-> <<>>]
  /\ UNCHANGED <<context, contextType, contextResolvers, requiredContexts,
                 trail>>

\* k.resolve(instance)
Resolve(k, instance) ==
  /\ last.op = "idle"
  /\ LET r == resolve(k, instance, contextTypeResolversCache, created)
     IN /\ contextTypeResolversCache' = r.cache
        /\ created' = r.created
        /\ last' = [op |-> "resolve", context |-> k, instance |-> instance,
                    resolver |-> r.resolver, value |-> r.value,
                    examined |-> r.examined, invoked |-> r.invoked]
  /\ UNCHANGED <<context, contextType, contextResolvers, requiredContexts,
                 trail>>

\* k.resolveMaybe(instance)
ResolveMaybe(k, instance) ==
  /\ last.op = "idle"
  /\ LET r == resolveMaybe(k, instance, contextTypeResolversCache, created)
     IN /\ contextTypeResolversCache' = r.cache
        /\ created' = r.created
        /\ last' = [op |-> "resolveMaybe", context |-> k, instance |-> instance,
                    resolver |-> r.resolver, value |-> r.value,
                    examined |-> r.examined, invoked |-> r.invoked]
  /\ UNCHANGED <<context, contextType, contextResolvers, requiredContexts,
                 trail>>

\* The caller goes on with what the call returned or threw.
Continue ==
  /\ last.op # "idle"
  /\ last' = Idle
  /\ UNCHANGED <<context, contextType, contextResolvers,
                 contextTypeResolversCache, created, requiredContexts, trail>>

Next ==
  \/ \E n \in Nodes, k \in Keys, p \in Producers : AddResolver(n, k, p)
  \/ \E n \in Nodes, k \in Keys : RemoveResolver(n, k)
  \/ \E k \in Keys, n \in Nodes : FindResolver(k, n)
  \/ \E k \in Keys, n \in Nodes : Resolve(k, n)
  \/ \E k \in Keys, n \in Nodes : ResolveMaybe(k, n)
  \/ Continue

Spec == Init /\ [][Next]_vars

\* --------------------------------------------- one table, its calls recorded

\* Most calls a recorded scenario makes on a table after constructing it.
MaxTableOps == 3

\* One recorded call: what was called, on which instance's table or from
\* which instance, with which key, and the resolver, list or value involved.
Entry(op, n, k, r, list, v) ==
  [op |-> op, instance |-> n, context |-> k, resolver |-> r, list |-> list,
   value |-> v]

\* The lists of ContextResolver objects handed to Context.resolvers; a key
\* may be repeated.
ResolverLists ==
  SeqsUpTo([context : Keys, resolver : {Fn(p) : p \in Producers}], MaxList)

\* Instances one behind the other, the last one the root.
ChainGraph ==
  [n \in Nodes |-> IF n = NumNodes THEN NullContext ELSE Single(n + 1)]

\* instance.contextResolvers = Context.resolvers(list) has been executed for
\* one instance.
InitTable ==
  /\ context = ChainGraph
  /\ contextType = [n \in Nodes |-> NoKey]
  /\ \E n \in Owners, list \in ResolverLists :
       /\ contextResolvers =
            [m \in Nodes |->
               IF m = n THEN Table(resolvers(list)) ELSE NoTable]
       /\ trail = <<Entry("resolvers", n, NoKey, Null, list, Undefined)>>
  /\ contextTypeResolversCache = [n \in Nodes |-> Null]
  /\ created = [n \in Nodes |-> 0]
  /\ requiredContexts = NoRequired
  /\ last = Idle

\* instance.contextResolvers.addResolver(k.resolvesTo(p)), recorded.
TableAddResolver(n, k, p) ==
  /\ Len(trail) <= MaxTableOps
  /\ contextResolvers[n].present
  /\ contextResolvers' =
       [contextResolvers EXCEPT
          ![n].resolvers = addResolver(contextResolvers[n].resolvers, k, Fn(p))]
  /\ trail' = Append(trail, Entry("addResolver", n, k, Fn(p), <<>>, Undefined))
  /\ UNCHANGED <<context, contextType, contextTypeResolversCache, created,
                 requiredContexts, last>>

\* instance.contextResolvers.removeResolver(k), recorded.
TableRemoveResolver(n, k) ==
  /\ Len(trail) <= MaxTableOps
  /\ contextResolvers[n].present
  /\ contextResolvers' =
       [contextResolvers EXCEPT
          ![n].resolvers = removeResolver(contextResolvers[n].resolvers, k)]
  /\ trail' = Append(trail, Entry("removeResolver", n, k, Null, <<>>, Undefined))
  /\ UNCHANGED <<context, contextType, contextTypeResolversCache, created,
                 requiredContexts, last>>

\* instance.contextResolvers.findResolver(k), recorded with what it returned.
TableFindResolver(n, k) ==
  /\ Len(trail) <= MaxTableOps
  /\ contextResolvers[n].present
  /\ trail' =
       Append(trail,
              Entry("findResolver", n, k,
                    tableFindResolver(contextResolvers[n].resolvers, k),
                    <<>>, Undefined))
  /\ UNCHANGED <<context, contextType, contextResolvers,
                 contextTypeResolversCache, created, requiredContexts, last>>

NextTable ==
  \/ \E n \in Nodes, k \in Keys, p \in Producers : TableAddResolver(n, k, p)
  \/ \E n \in Nodes, k \in Keys : TableRemoveResolver(n, k)
  \/ \E n \in Nodes, k \in Keys : TableFindResolver(n, k)

SpecTable == InitTable /\ [][NextTable]_vars

\* ------------------------------------- a chain of instances, calls recorded

\* Most calls a recorded scenario makes on the chain after the construction.
MaxChainOps == 5

\* The keys the chain scenario works with: a key and the partial made of it.
ChainKeys == {"k1", "k2"}

\* The root instance R, and C2, whose context C1 has R as its context.
R == NumNodes
C2 == NumNodes - 2

\* The root holds the only resolver, R.contextResolvers =
\* Context.resolvers([Kc.resolvesTo(p)]); the instances form one chain.
InitChain ==
  /\ context = ChainGraph
  /\ contextType = [n \in Nodes |-> NoKey]
  /\ \E Kc \in ChainKeys, p \in Producers :
       LET list == <<[context |-> Kc, resolver |-> Fn(p)]>>
       IN /\ contextResolvers =
               [m \in Nodes |->
                  IF m = R THEN Table(resolvers(list)) ELSE NoTable]
          /\ trail = <<Entry("resolvers", R, NoKey, Null, list, Undefined)>>
  /\ contextTypeResolversCache = [n \in Nodes |-> Null]
  /\ created = [n \in Nodes |-> 0]
  /\ requiredContexts = NoRequired
  /\ last = Idle

\* R.contextResolvers.addResolver(k.resolvesTo(p)), recorded.
ChainAddResolver(k, p) ==
  /\ Len(trail) <= MaxChainOps
  /\ contextResolvers' =
       [contextResolvers EXCEPT
          ![R].resolvers = addResolver(contextResolvers[R].resolvers, k, Fn(p))]
  /\ trail' = Append(trail, Entry("addResolver", R, k, Fn(p), <<>>, Undefined))
  /\ UNCHANGED <<context, contextType, contextTypeResolversCache, created,
                 requiredContexts, last>>

\* R.contextResolvers.removeResolver(k), recorded.
ChainRemoveResolver(k) ==
  /\ Len(trail) <= MaxChainOps
  /\ contextResolvers' =
       [contextResolvers EXCEPT
          ![R].resolvers = removeResolver(contextResolvers[R].resolvers, k)]
  /\ trail' = Append(trail, Entry("removeResolver", R, k, Null, <<>>, Undefined))
  /\ UNCHANGED <<context, contextType, contextTypeResolversCache, created,
                 requiredContexts, last>>

\* k.resolve(instance), recorded with the value returned or the Error thrown.
ChainResolve(k, instance) ==
  /\ Len(trail) <= MaxChainOps
  /\ LET r == resolve(k, instance, contextTypeResolversCache, created)
     IN /\ contextTypeResolversCache' = r.cache
        /\ created' = r.created
        /\ trail' = Append(trail,
                           Entry("resolve", instance, k, r.resolver, <<>>,
                                 r.value))
  /\ UNCHANGED <<context, contextType, contextResolvers, requiredContexts,
                 last>>

NextChain ==
  \/ \E k \in ChainKeys, p \in Producers : ChainAddResolver(k, p)
  \/ \E k \in ChainKeys : ChainRemoveResolver(k)
  \/ \E k \in ChainKeys : ChainResolve(k, C2)

SpecChain == InitChain /\ [][NextChain]_vars

\* ------------------------------------------------------- required contexts

\* The requiredContexts arrays an application declares.
RequiredLists == {Required(list) : list \in SeqsUpTo(Keys, MaxList)}

\* The graphs of the initial states in which the second instance has the
\* third as its only parent.
InitRequired ==
  /\ context \in [Nodes -> UNION {ContextChoices(n) : n \in Nodes}]
  /\ \A n \in Nodes : context[n] \in ContextChoices(n)
  /\ NumNodes > 2 => context[2] = Single(3)
  /\ \E ds \in SeqsUpTo(Decls, MaxDecl) :
       /\ contextType = [n \in Nodes |-> TypeOf(ds, n)]
       /\ contextResolvers =
            [n \in Nodes |->
               IF n \in Owners
                 THEN Table(resolvers(ListOf(ds, n)))
                 ELSE NoTable]
  /\ \E own \in {Absent} \cup RequiredLists,
        class \in {Absent, Required(<<"k1">>)} :
       requiredContexts =
         [class |-> class,
          own |-> [n \in Nodes |-> IF n = 1 THEN own ELSE Absent]]
  /\ contextTypeResolversCache = [n \in Nodes |-> Null]
  /\ created = [n \in Nodes |-> 0]
  /\ last = Idle
  /\ trail = <<>>

\* Context.checkRequired(instance) of src/index.ts.
CheckRequired(instance) ==
  /\ last.op = "idle"
  /\ LET r == checkRequired(instance, requiredContexts.own[instance],
                            requiredContexts.class,
                            contextTypeResolversCache, created)
     IN /\ contextTypeResolversCache' = r.cache
        /\ created' = r.created
        /\ last' = [Idle EXCEPT !.op = "checkRequired",
                                !.instance = instance,
                                !.value = r.value,
                                !.invoked = r.invoked]
  /\ UNCHANGED <<context, contextType, contextResolvers, requiredContexts,
                 trail>>

\* Context.checkRequired(instance) of unnamed/part_000.
CheckRequiredByValue(instance) ==
  /\ last.op = "idle"
  /\ LET r == checkRequiredByValue(instance, requiredContexts.own[instance],
                                   requiredContexts.class,
                                   contextTypeResolversCache, created)
     IN /\ contextTypeResolversCache' = r.cache
        /\ created' = r.created
        /\ last' = [Idle EXCEPT !.op = "checkRequired (part_000)",
                                !.instance = instance,
                                !.value = r.value,
                                !.invoked = r.invoked]
  /\ UNCHANGED <<context, contextType, contextResolvers, requiredContexts,
                 trail>>

NextRequired ==
  \/ \E n \in Nodes : CheckRequired(n)
  \/ \E n \in Nodes : CheckRequiredByValue(n)

SpecRequired == InitRequired /\ [][NextRequired]_vars

\* ------------------------------------ typed instances, lookups recorded

\* A chain of instances of which up to MaxDecl have a contextType; the root
\* has an empty resolver table; nothing has been looked up yet.
InitMemo ==
  /\ context = ChainGraph
  /\ \E ds \in SeqsUpTo(TypeDecls, MaxDecl) :
       contextType = [n \in Nodes |-> TypeOf(ds, n)]
  /\ contextResolvers =
       [m \in Nodes |-> IF m = R THEN Table(resolvers(<<>>)) ELSE NoTable]
  /\ contextTypeResolversCache = [n \in Nodes |-> Null]
  /\ created = [n \in Nodes |-> 0]
  /\ requiredContexts = NoRequired
  /\ last = Idle
  /\ trail = <<>>

\* k.findResolver(instance), recorded with the resolver returned.
MemoFindResolver(k, instance) ==
  /\ Len(trail) < MaxTableOps
  /\ LET r == findResolver(k, instance, contextTypeResolversCache, created)
     IN /\ contextTypeResolversCache' = r.cache
        /\ created' = r.created
        /\ trail' = Append(trail,
                           Entry("findResolver", instance, k, r.resolver,
                                 r.examined, Undefined))
  /\ UNCHANGED <<context, contextType, contextResolvers, requiredContexts,
                 last>>

\* R.contextResolvers.addResolver(k.resolvesTo(p)) between two lookups.
MemoAddResolver(k, p) ==
  /\ Len(trail) < MaxTableOps
  /\ contextResolvers' =
       [contextResolvers EXCEPT
          ![R].resolvers = addResolver(contextResolvers[R].resolvers, k, Fn(p))]
  /\ trail' = Append(trail, Entry("addResolver", R, k, Fn(p), <<>>, Undefined))
  /\ UNCHANGED <<context, contextType, contextTypeResolversCache, created,
                 requiredContexts, last>>

\* R.contextResolvers.removeResolver(k) between two lookups.
MemoRemoveResolver(k) ==
  /\ Len(trail) < MaxTableOps
  /\ contextResolvers' =
       [contextResolvers EXCEPT
          ![R].resolvers = removeResolver(contextResolvers[R].resolvers, k)]
  /\ trail' = Append(trail, Entry("removeResolver", R, k, Null, <<>>, Undefined))
  /\ UNCHANGED <<context, contextType, contextTypeResolversCache, created,
                 requiredContexts, last>>

NextMemo ==
  \/ \E k \in Keys, n \in Nodes : MemoFindResolver(k, n)
  \/ \E k \in ChainKeys, p \in Producers : MemoAddResolver(k, p)
  \/ \E k \in ChainKeys : MemoRemoveResolver(k)

SpecMemo == InitMemo /\ [][NextMemo]_vars

\* ----------------------------------------- every operation, one at a time

\* The initial states of the required-contexts scenarios in which the first
\* instance lists two partial keys, or nothing, and the class lists k1.
InitFrame ==
  /\ context \in [Nodes -> UNION {ContextChoices(n) : n \in Nodes}]
  /\ \A n \in Nodes : context[n] \in ContextChoices(n)
  /\ NumNodes > 2 => context[2] = Single(3)
  /\ \E ds \in SeqsUpTo(Decls, MaxDecl) :
       /\ contextType = [n \in Nodes |-> TypeOf(ds, n)]
       /\ contextResolvers =
            [n \in Nodes |->
               IF n \in Owners
                 THEN Table(resolvers(ListOf(ds, n)))
                 ELSE NoTable]
  /\ \E own \in {Absent, Required(<<"k2", "k4">>)} :
       requiredContexts =
         [class |-> Required(<<"k1">>),
          own |-> [n \in Nodes |-> IF n = 1 THEN own ELSE Absent]]
  /\ contextTypeResolversCache = [n \in Nodes |-> Null]
  /\ created = [n \in Nodes |-> 0]
  /\ last = Idle
  /\ trail = <<>>

\* instance.contextResolvers.addResolver(k.resolvesTo(p)), the call kept in
\* `last` until the caller goes on.
FrameAddResolver(n, k, p) ==
  /\ last.op = "idle"
  /\ contextResolvers[n].present
  /\ \/ MapGet(contextResolvers[n].resolvers, k) # Null
     \/ Declared < MaxDecl
  /\ contextResolvers' =
       [contextResolvers EXCEPT
          ![n].resolvers = addResolver(contextResolvers[n].resolvers, k, Fn(p))]
  /\ last' = [Idle EXCEPT !.op = "addResolver", !.instance = n,
                          !.context = k, !.resolver = Fn(p)]
  /\ UNCHANGED <<context, contextType, contextTypeResolversCache, created,
                 requiredContexts, trail>>

\* instance.contextResolvers.removeResolver(k), the call kept in `last`.
FrameRemoveResolver(n, k) ==
  /\ last.op = "idle"
  /\ contextResolvers[n].present
  /\ contextResolvers' =
       [contextResolvers EXCEPT
          ![n].resolvers = removeResolver(contextResolvers[n].resolvers, k)]
  /\ last' = [Idle EXCEPT !.op = "removeResolver", !.instance = n,
                          !.context = k]
  /\ UNCHANGED <<context, contextType, contextTypeResolversCache, created,
                 requiredContexts, trail>>

NextFrame ==
  \/ \E n \in Nodes, k \in Keys, p \in Producers : FrameAddResolver(n, k, p)
  \/ \E n \in Nodes, k \in Keys : FrameRemoveResolver(n, k)
  \/ \E k \in Keys, n \in Nodes : FindResolver(k, n)
  \/ \E k \in Keys, n \in Nodes : Resolve(k, n)
  \/ \E k \in Keys, n \in Nodes : ResolveMaybe(k, n)
  \/ \E n \in Nodes : CheckRequired(n)
  \/ \E n \in Nodes : CheckRequiredByValue(n)
  \/ Continue

SpecFrame == InitFrame /\ [][NextFrame]_vars

\* ------------------------------------- the loop of findResolver, step by step

\* Graphs with cycles: the context of an instance may hold the instance
\* itself, its successor on a ring through all instances, or both.
Succ(n) == (n % NumNodes) + 1
CycleChoices(n) ==
  {NullContext, Single(n), Single(Succ(n)),
   Array(<<n, Succ(n)>>), Array(<<Succ(n), n>>)}

\* The for-of loop does not run longer than this in the model.
MaxIterations == NumNodes + 2

\* Any such graph, with at most one declaration (a contextType or a table
\* entry); no call yet.
InitLoop ==
  /\ context \in {g \in [Nodes -> UNION {CycleChoices(n) : n \in Nodes}] :
                    \A n \in Nodes : g[n] \in CycleChoices(n)}
  /\ \E ds \in SeqsUpTo(Decls, 1) :
       /\ contextType = [n \in Nodes |-> TypeOf(ds, n)]
       /\ contextResolvers =
            [n \in Nodes |->
               IF n \in Owners THEN Table(resolvers(ListOf(ds, n)))
               ELSE NoTable]
  /\ contextTypeResolversCache = [n \in Nodes |-> Null]
  /\ created = [n \in Nodes |-> 0]
  /\ requiredContexts = NoRequired
  /\ last = Idle
  /\ trail = <<>>

\* k.findResolver(startInstance) is entered: bfsQueue = new Set() and
\* bfsQueue.add(startInstance).  While the loop runs, last.examined holds
\* bfsQueue and trail the iterations done.
LoopEnter(k, startInstance) ==
  /\ last.op = "idle"
  /\ last' = [Idle EXCEPT !.op = "for-of", !.context = k,
                          !.instance = startInstance,
                          !.examined = SetAdd(<<>>, startInstance)]
  /\ UNCHANGED <<context, contextType, contextResolvers,
                 contextTypeResolversCache, created, requiredContexts, trail>>

\* One iteration of `for (const instance of bfsQueue)`: the resolver of the
\* next instance of the queue is computed; if there is one the call returns
\* it, else the parents of the instance are added to the queue.
LoopBody ==
  /\ last.op = "for-of"
  /\ Len(trail) < Len(last.examined)
  /\ Len(trail) < MaxIterations
  /\ LET bfsQueue == last.examined
         instance == bfsQueue[Len(trail) + 1]
         found == matchAt(last.context, instance, contextTypeResolversCache,
                          created)
     IN /\ contextTypeResolversCache' = found.cache
        /\ created' = found.created
        /\ trail' = Append(trail,
                           Entry("iteration", instance, last.context,
                                 found.resolver, bfsQueue, Undefined))
        /\ last' = IF found.resolver # Null
                     THEN [last EXCEPT !.op = "findResolver",
                                       !.resolver = found.resolver,
                                       !.examined =
                                         SubSeq(bfsQueue, 1, Len(trail) + 1)]
                     ELSE [last EXCEPT !.examined = Enqueue(bfsQueue, instance)]
  /\ UNCHANGED <<context, contextType, contextResolvers, requiredContexts>>

\* The iterator is exhausted: return null.
LoopExit ==
  /\ last.op = "for-of"
  /\ Len(trail) >= Len(last.examined)
  /\ last' = [last EXCEPT !.op = "findResolver", !.resolver = Null]
  /\ UNCHANGED <<context, contextType, contextResolvers,
                 contextTypeResolversCache, created, requiredContexts, trail>>

NextLoop ==
  \/ \E k \in ChainKeys, n \in {1, C2} : LoopEnter(k, n)
  \/ LoopBody
  \/ LoopExit

\* The loop is synchronous code: once entered it keeps running.
SpecLoop ==
  InitLoop /\ [][NextLoop]_vars /\ WF_vars(LoopBody \/ LoopExit)

\* ------------------------------------------- producer invocations, recorded

\* A chain of instances, at most one of them with a contextType; the root
\* holds a table with one resolver.  Every call is recorded, its `list`
\* field holding the producers the call invoked, in order.
InitCalls ==
  /\ context = ChainGraph
  /\ \E ds \in SeqsUpTo(TypeDecls, 1) :
       contextType = [n \in Nodes |-> TypeOf(ds, n)]
  /\ \E Kc \in ChainKeys, p \in Producers :
       contextResolvers =
         [m \in Nodes |->
            IF m = R
              THEN Table(resolvers(<<[context |-> Kc, resolver |-> Fn(p)]>>))
              ELSE NoTable]
  /\ contextTypeResolversCache = [n \in Nodes |-> Null]
  /\ created = [n \in Nodes |-> 0]
  /\ requiredContexts = NoRequired
  /\ last = Idle
  /\ trail = <<>>

\* k.resolve(instance), recorded with the producers it invoked.
CallsResolve(k, instance) ==
  /\ Len(trail) < MaxTableOps
  /\ LET r == resolve(k, instance, contextTypeResolversCache, created)
     IN /\ contextTypeResolversCache' = r.cache
        /\ created' = r.created
        /\ trail' = Append(trail,
                           Entry("resolve", instance, k, r.resolver,
                                 r.invoked, r.value))
  /\ UNCHANGED <<context, contextType, contextResolvers, requiredContexts,
                 last>>

\* k.resolveMaybe(instance), recorded with the producers it invoked.
CallsResolveMaybe(k, instance) ==
  /\ Len(trail) < MaxTableOps
  /\ LET r == resolveMaybe(k, instance, contextTypeResolversCache, created)
     IN /\ contextTypeResolversCache' = r.cache
        /\ created' = r.created
        /\ trail' = Append(trail,
                           Entry("resolveMaybe", instance, k, r.resolver,
                                 r.invoked, r.value))
  /\ UNCHANGED <<context, contextType, contextResolvers, requiredContexts,
                 last>>

\* k.findResolver(instance): the producer is returned, not called.
CallsFindResolver(k, instance) ==
  /\ Len(trail) < MaxTableOps
  /\ LET r == findResolver(k, instance, contextTypeResolversCache, created)
     IN /\ contextTypeResolversCache' = r.cache
        /\ created' = r.created
        /\ trail' = Append(trail,
                           Entry("findResolver", instance, k, r.resolver,
                                 <<>>, Undefined))
  /\ UNCHANGED <<context, contextType, contextResolvers, requiredContexts,
                 last>>

\* R.contextResolvers.addResolver(k.resolvesTo(p)): the producer is stored.
CallsAddResolver(k, p) ==
  /\ Len(trail) < MaxTableOps
  /\ contextResolvers' =
       [contextResolvers EXCEPT
          ![R].resolvers = addResolver(contextResolvers[R].resolvers, k, Fn(p))]
  /\ trail' = Append(trail, Entry("addResolver", R, k, Fn(p), <<>>, Undefined))
  /\ UNCHANGED <<context, contextType, contextTypeResolversCache, created,
                 requiredContexts, last>>

\* R.contextResolvers.removeResolver(k).
CallsRemoveResolver(k) ==
  /\ Len(trail) < MaxTableOps
  /\ contextResolvers' =
       [contextResolvers EXCEPT
          ![R].resolvers = removeResolver(contextResolvers[R].resolvers, k)]
  /\ trail' = Append(trail, Entry("removeResolver", R, k, Null, <<>>, Undefined))
  /\ UNCHANGED <<context, contextType, contextTypeResolversCache, created,
                 requiredContexts, last>>

\* R.contextResolvers.findResolver(k): the producer is returned, not called.
CallsTableFindResolver(k) ==
  /\ Len(trail) < MaxTableOps
  /\ trail' = Append(trail,
                     Entry("table.findResolver", R, k,
                           tableFindResolver(contextResolvers[R].resolvers, k),
                           <<>>, Undefined))
  /\ UNCHANGED <<context, contextType, contextResolvers,
                 contextTypeResolversCache, created, requiredContexts, last>>

NextCalls ==
  \/ \E k \in ChainKeys, n \in {1, C2} : CallsResolve(k, n)
  \/ \E k \in ChainKeys, n \in {1, C2} : CallsResolveMaybe(k, n)
  \/ \E k \in ChainKeys, n \in {1, C2} : CallsFindResolver(k, n)
  \/ \E k \in ChainKeys, p \in Producers : CallsAddResolver(k, p)
  \/ \E k \in ChainKeys : CallsRemoveResolver(k)
  \/ \E k \in ChainKeys : CallsTableFindResolver(k)

SpecCalls == InitCalls /\ [][NextCalls]_vars

\* ------------------------------------------------- what the claims speak of

Lookups == {"findResolver", "resolve", "resolveMaybe"}

\* The keys of k's parent chain, k first, as a sequence and as a set.
RECURSIVE KeyChain(_)
KeyChain(k) == IF k = NoKey THEN <<>> ELSE <<k>> \o KeyChain(parent[k])

ChainOf(k) == Range(KeyChain(k))

\* The context edges that leave instance n.
ParentsOf(n) == Range(context[n].nodes)

\* The instances within d context edges of start, and all within reach.
RECURSIVE Within(_, _)
Within(start, d) ==
  IF d = 0 THEN {start}
  ELSE LET near == Within(start, d - 1)
       IN near \cup UNION {ParentsOf(n) : n \in near}

Reachable(start) == Within(start, NumNodes)

\* The edge distance from start to a reachable instance m.
Dist(start, m) ==
  CHOOSE d \in 0..NumNodes :
    m \in Within(start, d) /\ (d = 0 \/ m \notin Within(start, d - 1))

\* Instance m matches key k by its contextType, by its resolver table.
TypeMatches(k, m) == contextType[m] \in ChainOf(k)
TableMatches(k, m) ==
  \E e \in contextResolvers[m].resolvers : e.context \in ChainOf(k)
Matches(k, m) == TypeMatches(k, m) \/ TableMatches(k, m)

\* Resolver r is what a match of k at instance m yields: a producer of m
\* itself when m matches by type, else the table's producer for the key of
\* the chain nearest to k that has an entry.
IsMatchAt(r, k, m) ==
  IF TypeMatches(k, m)
    THEN r.fn = "self" /\ r.node = m
    ELSE \E i \in 1..Len(KeyChain(k)) :
           /\ [context |-> KeyChain(k)[i], resolver |-> r]
                \in contextResolvers[m].resolvers
           /\ \A j \in 1..(i - 1) :
                \A e \in contextResolvers[m].resolvers :
                  e.context # KeyChain(k)[j]

\* The not-found error of k.resolve.
NotFound(k) == Thrown("Cannot find resolver for context " \o name[k])

C2_ClosestWins ==
  (/\ last.op \in Lookups
   /\ \E m \in Reachable(last.instance) : Matches(last.context, m)) =>
    \E m \in Reachable(last.instance) :
      /\ Matches(last.context, m)
      /\ \A o \in Reachable(last.instance) :
           Matches(last.context, o) =>
             Dist(last.instance, m) <= Dist(last.instance, o)
      /\ IsMatchAt(last.resolver, last.context, m)

\* The start has two parents; the match at distance 1 is returned although
\* an instance two edges away, with another producer, matches too.
C2_Witness ==
  /\ last.op = "findResolver"
  /\ context[last.instance].array
  /\ \E m, o \in Reachable(last.instance) :
       /\ Matches(last.context, m) /\ Matches(last.context, o)
       /\ Dist(last.instance, m) = 1 /\ Dist(last.instance, o) = 2
       /\ IsMatchAt(last.resolver, last.context, m)
       /\ ~IsMatchAt(last.resolver, last.context, o)

\* The instance the lookup matched at: the last one it examined.
MatchedAt == last.examined[Len(last.examined)]

\* C3: a self-type match takes precedence over a table match at the same
\* instance.  When the instance M the lookup matched at has its contextType
\* on the key's chain and its table holds an entry for a key of the chain,
\* the producer returned yields M itself, never the table's producer.
C3_SelfTypeFirst ==
  (/\ last.op \in Lookups
   /\ last.resolver # Null
   /\ TypeMatches(last.context, MatchedAt)
   /\ TableMatches(last.context, MatchedAt)) =>
    /\ last.resolver.fn = "self"
    /\ Call(last.resolver) = Obj(MatchedAt)
    /\ \A e \in contextResolvers[MatchedAt].resolvers :
         e.resolver # last.resolver
    /\ last.op # "findResolver" => last.value = Obj(MatchedAt)

\* The table entry is for the narrower key (the one looked up), the
\* contextType is a broader key of its chain, and the instance is returned.
C3_Witness ==
  /\ last.op = "resolve"
  /\ last.resolver # Null
  /\ contextType[MatchedAt] \in ChainOf(last.context) \ {last.context}
  /\ \E e \in contextResolvers[MatchedAt].resolvers :
       e.context = last.context
  /\ last.value = Obj(MatchedAt)

\* The order in which a breadth-first walk from start meets the instances:
\* level by level, a level's instances in the order the parent edges of the
\* level before list them, each instance at its first meeting only.
RECURSIVE NewOnes(_, _)
NewOnes(xs, seen) ==
  IF xs = <<>> THEN <<>>
  ELSE IF Head(xs) \in seen THEN NewOnes(Tail(xs), seen)
  ELSE <<Head(xs)>> \o NewOnes(Tail(xs), seen \cup {Head(xs)})

RECURSIVE ParentsInOrder(_)
ParentsInOrder(level) ==
  IF level = <<>> THEN <<>>
  ELSE context[Head(level)].nodes \o ParentsInOrder(Tail(level))

RECURSIVE LevelOrder(_, _)
LevelOrder(order, level) ==
  IF level = <<>> THEN order
  ELSE LET next == NewOnes(ParentsInOrder(level), Range(order))
       IN LevelOrder(order \o next, next)

RefOrder(start) == LevelOrder(<<start>>, <<start>>)

Position(order, m) == CHOOSE i \in 1..Len(order) : order[i] = m

\* Instance a holds the broader key k1 for a lookup of k: as contextType or
\* as a table entry.
HoldsKey(a, k1) ==
  \/ contextType[a] = k1
  \/ \E e \in contextResolvers[a].resolvers : e.context = k1

\* No matching instance is nearer to the start than a.
NoNearerMatch(k, start, a) ==
  \A o \in Reachable(start) :
    Matches(k, o) => Dist(start, a) <= Dist(start, o)

\* C4 as stated: a resolver registered for k1, or a contextType k1, on an
\* ancestor a satisfies a lookup of a key derived from k1 issued from a
\* descendant, provided no nearer instance matches; the lookup returns that
\* ancestor's match.
C4_AsStated ==
  last.op \in Lookups =>
    \A a \in Reachable(last.instance) \ {last.instance} :
      \A k1 \in ChainOf(last.context) \ {last.context} :
        (HoldsKey(a, k1) /\ NoNearerMatch(last.context, last.instance, a))
          => IsMatchAt(last.resolver, last.context, a)

\* C4 (amended): partial-key fallback.  A resolver registered for k1, or a
\* contextType k1, on an ancestor a satisfies a lookup of a key derived from
\* k1 (by one or more partial() calls) issued from a descendant, provided
\* no nearer instance matches and no other matching instance at the same
\* distance comes before a in the breadth-first order; the lookup returns
\* that ancestor's match.
C4_PartialFallback ==
  last.op \in Lookups =>
    \A a \in Reachable(last.instance) \ {last.instance} :
      \A k1 \in ChainOf(last.context) \ {last.context} :
        (/\ HoldsKey(a, k1)
         /\ NoNearerMatch(last.context, last.instance, a)
         /\ \A o \in Reachable(last.instance) \ {a} :
              (Matches(last.context, o)
               /\ Dist(last.instance, o) = Dist(last.instance, a))
                => Position(RefOrder(last.instance), a)
                     < Position(RefOrder(last.instance), o))
          => IsMatchAt(last.resolver, last.context, a)

\* A lookup of k3 = k1.partial().partial() is answered by the table entry
\* for k1 of an instance two edges up, which holds nothing for k3 or k2.
C4_Witness ==
  /\ last.op = "resolve"
  /\ last.context = "k3"
  /\ \E a \in Reachable(last.instance) :
       /\ Dist(last.instance, a) = 2
       /\ \E e \in contextResolvers[a].resolvers :
            e.context = "k1" /\ e.resolver = last.resolver
       /\ \A e \in contextResolvers[a].resolvers : e.context = "k1"
       /\ contextType[a] = NoKey
       /\ last.value = Call(last.resolver)

\* The lookup returned instance p itself.
ReturnsInstance(p) ==
  /\ last.resolver.fn = "self"
  /\ last.resolver.node = p
  /\ last.op # "findResolver" => last.value = Obj(p)

\* The start instance is a child of nN, whose context is the array [P1, P2]
\* of two instances with contextTypes; nothing else on the way matches the
\* key looked up: not the start, not nN, no table of P1 or P2.
FanInOf(nN) ==
  /\ context[last.instance] = Single(nN)
  /\ context[nN].array
  /\ Len(context[nN].nodes) = 2
  /\ contextType[context[nN].nodes[1]] # NoKey
  /\ contextType[context[nN].nodes[2]] # NoKey
  /\ contextType[context[nN].nodes[1]] # contextType[context[nN].nodes[2]]
  /\ ~Matches(last.context, last.instance)
  /\ ~Matches(last.context, nN)
  /\ ~TableMatches(last.context, context[nN].nodes[1])
  /\ ~TableMatches(last.context, context[nN].nodes[2])

RECURSIVE Paths(_, _)
Paths(n, m) ==
  IF n = m THEN 1
  ELSE LET ps == context[n].nodes
           count[i \in 0..Len(ps)] ==
             IF i = 0 THEN 0
             ELSE count[i - 1]
                  + (IF \E j \in 1..(i - 1) : ps[j] = ps[i] THEN 0
                     ELSE Paths(ps[i], m))
       IN count[Len(ps)]

\* Some instance is reachable from start along two different paths.
Diamond(start) == \E m \in Reachable(start) : Paths(start, m) >= 2

NoDuplicates(xs) == \A i, j \in 1..Len(xs) : xs[i] = xs[j] => i = j

\* C8: diamond graphs terminate.  On an acyclic graph where an instance is
\* reachable from the start along two or more paths, the lookup completes
\* having examined each distinct instance at most once, reachable instances
\* only, and returns a nearest match, or null when nothing matches.
C8_Diamond ==
  (last.op \in Lookups /\ Diamond(last.instance)) =>
    /\ NoDuplicates(last.examined)
    /\ Range(last.examined) \subseteq Reachable(last.instance)
    /\ IF \E m \in Reachable(last.instance) : Matches(last.context, m)
         THEN \E m \in Reachable(last.instance) :
                /\ Matches(last.context, m)
                /\ NoNearerMatch(last.context, last.instance, m)
                /\ IsMatchAt(last.resolver, last.context, m)
         ELSE /\ last.resolver = Null
              /\ Range(last.examined) = Reachable(last.instance)

\* The match lies behind an instance that two paths lead to, and that
\* instance was examined on the way.
C8_Witness ==
  /\ last.op = "findResolver"
  /\ last.resolver # Null
  /\ \E m \in Range(last.examined) :
       /\ Paths(last.instance, m) >= 2
       /\ m # MatchedAt
       /\ Paths(last.instance, MatchedAt) >= 3

\* The call recorded last.
Latest == trail[Len(trail)]

\* The latest recorded addResolver or removeResolver of key k on the table of
\* instance n (its index in the trail), 0 when there is none.
LastChange(n, k) ==
  LET js == {j \in 1..Len(trail) :
               /\ trail[j].instance = n
               /\ trail[j].context = k
               /\ trail[j].op \in {"addResolver", "removeResolver"}}
  IN IF js = {} THEN 0 ELSE CHOOSE j \in js : \A i \in js : i <= j

\* Before call j, key k was added to the table of n.
AddedBefore(n, k, j) ==
  \E i \in 1..(j - 1) :
    /\ trail[i].op = "addResolver"
    /\ trail[i].instance = n
    /\ trail[i].context = k

\* r is what a table with entries m answers for key k: the producer of the
\* entry of the nearest key of k's chain that has one, null when no key of
\* the chain has an entry.
Answers(r, m, k) ==
  IF \A e \in m : e.context \notin ChainOf(k)
    THEN r = Null
    ELSE \E i \in 1..Len(KeyChain(k)) :
           /\ [context |-> KeyChain(k)[i], resolver |-> r] \in m
           /\ \A j \in 1..(i - 1) : \A e \in m : e.context # KeyChain(k)[j]

\* C6 as stated: after addResolver(K.resolvesTo(f)) a findResolver(K) on the
\* table returns f; after a subsequent removeResolver(K) it returns null,
\* whatever the table's other entries.
C6_AsStated ==
  (trail # <<>> /\ Latest.op = "findResolver") =>
    LET n == Latest.instance
        k == Latest.context
        j == LastChange(n, k)
    IN /\ (j > 0 /\ trail[j].op = "addResolver") =>
            Latest.resolver = trail[j].resolver
       /\ (j > 0 /\ trail[j].op = "removeResolver" /\ AddedBefore(n, k, j)) =>
            Latest.resolver = Null

\* C6 (amended): dynamic mutation of a resolver table.  After
\* addResolver(K.resolvesTo(f)) a findResolver(K) on the table returns f;
\* after a subsequent removeResolver(K) it returns null when the table holds
\* no entry for a key of K's parent chain, and otherwise the producer of the
\* entry of the nearest such key.
C6_Dynamic ==
  (trail # <<>> /\ Latest.op = "findResolver") =>
    LET n == Latest.instance
        k == Latest.context
        j == LastChange(n, k)
    IN /\ (j > 0 /\ trail[j].op = "addResolver") =>
            Latest.resolver = trail[j].resolver
       /\ (j > 0 /\ trail[j].op = "removeResolver" /\ AddedBefore(n, k, j)) =>
            Answers(Latest.resolver, contextResolvers[n].resolvers, parent[k])

\* K was added, then removed, and the findResolver(K) that followed returned
\* the producer the table holds for K's parent.
C6_Witness ==
  /\ Len(trail) >= 3
  /\ Latest.op = "findResolver"
  /\ trail[Len(trail) - 1].op = "removeResolver"
  /\ trail[Len(trail) - 1].context = Latest.context
  /\ trail[Len(trail) - 2].op = "addResolver"
  /\ trail[Len(trail) - 2].context = Latest.context
  /\ Latest.resolver # Null
  /\ [context |-> parent[Latest.context], resolver |-> Latest.resolver]
       \in contextResolvers[Latest.instance].resolvers

\* The resolver of the last element of a list that is for key k.
RECURSIVE LastIn(_, _)
LastIn(list, k) ==
  IF list = <<>> THEN Null
  ELSE IF list[Len(list)].context = k THEN list[Len(list)].resolver
  ELSE LastIn(SubSeq(list, 1, Len(list) - 1), k)

\* The producer the first i recorded calls leave standing for key k in the
\* table of n, going by the calls that name k itself: the latest of them
\* decides (an addResolver: its producer; a removeResolver: none; the
\* construction: the last element of the list that is for k).
RECURSIVE Standing(_, _, _)
Standing(i, n, k) ==
  IF i = 0 THEN Null
  ELSE LET e == trail[i]
       IN IF e.instance = n /\ e.op = "resolvers" THEN LastIn(e.list, k)
          ELSE IF e.instance = n /\ e.context = k /\ e.op = "addResolver"
            THEN e.resolver
          ELSE IF e.instance = n /\ e.context = k /\ e.op = "removeResolver"
            THEN Null
          ELSE Standing(i - 1, n, k)

\* C10: after the construction of a table from a list (keys may repeat) and
\* any addResolver and removeResolver calls, the table holds for every key
\* at most one entry, the producer last added for that very key (none after
\* its removal), which is the one findResolver returns for it; calls for
\* another key, also one with the same name, leave the entry alone.
C10_OnePerKey ==
  \A n \in Nodes :
    contextResolvers[n].present =>
      \A k \in Keys :
        LET r == Standing(Len(trail), n, k)
        IN /\ {e \in contextResolvers[n].resolvers : e.context = k}
                = (IF r = Null THEN {} ELSE {[context |-> k, resolver |-> r]})
           /\ (/\ Latest.op = "findResolver"
               /\ Latest.instance = n
               /\ Latest.context = k
               /\ r # Null) => Latest.resolver = r

\* The list named k2 twice with two producers; then k4, which has k2's name,
\* was added with the producer k2 had first: k2 keeps the second producer of
\* the list and k4 has an entry of its own.
C10_Witness ==
  /\ Len(trail) >= 2
  /\ trail[1].op = "resolvers"
  /\ Len(trail[1].list) = 2
  /\ trail[1].list[1].context = "k2"
  /\ trail[1].list[2].context = "k2"
  /\ trail[1].list[1].resolver # trail[1].list[2].resolver
  /\ Latest.op = "addResolver"
  /\ Latest.context = "k4"
  /\ name[Latest.context] = name["k2"]
  /\ Latest.resolver = trail[1].list[1].resolver
  /\ contextResolvers[Latest.instance].resolvers =
       {[context |-> "k2", resolver |-> trail[1].list[2].resolver],
        [context |-> "k4", resolver |-> Latest.resolver]}

\* The first instance in breadth-first order from start that matches key k,
\* 0 when none does.
FirstMatch(k, start) ==
  LET order == RefOrder(start)
      at == {i \in 1..Len(order) : Matches(k, order[i])}
  IN IF at = {} THEN 0 ELSE order[CHOOSE i \in at : \A j \in at : i <= j]

\* v is what k.resolve(start) yields on the graph and the tables as they
\* are: the value of the first match's producer, else the not-found error.
Resolves(v, k, start) ==
  LET m == FirstMatch(k, start)
  IN IF m = 0 THEN v = NotFound(k)
     ELSE IF TypeMatches(k, m) THEN v = Obj(m)
     ELSE \E e \in contextResolvers[m].resolvers :
            IsMatchAt(e.resolver, k, m) /\ v = Call(e.resolver)

\* v is what a resolve of k yields when R's table is as the first i recorded
\* calls left it: the value of the producer standing for the nearest key of
\* k's chain that has one, else the not-found error.
ResolvesAfter(v, k, i) ==
  LET at == {j \in 1..Len(KeyChain(k)) : Standing(i, R, KeyChain(k)[j]) # Null}
  IN IF at = {} THEN v = NotFound(k)
     ELSE v = Call(Standing(i, R, KeyChain(k)[CHOOSE j \in at :
                                                \A h \in at : j <= h]))

\* C7: resolution reflects the tables as they are at call time.  The resolve
\* that has just returned answered from the current tables, and every
\* recorded resolve answered from the table as the addResolver and
\* removeResolver calls before it had left it: no result of an earlier
\* resolution is kept.
C7_CallTime ==
  /\ (trail # <<>> /\ Latest.op = "resolve") =>
       Resolves(Latest.value, Latest.context, Latest.instance)
  /\ \A i \in 1..Len(trail) :
       trail[i].op = "resolve" =>
         ResolvesAfter(trail[i].value, trail[i].context, i - 1)

\* R holds the only resolver, for k2: k2.resolve(C2) returned its value;
\* after removeResolver(k2) on R the same call threw the not-found error;
\* after the resolver was added again it returned the value again.
C7_Witness ==
  /\ Len(trail) = 6
  /\ trail[1].list = <<[context |-> "k2", resolver |-> Fn("f")]>>
  /\ trail[2].op = "resolve" /\ trail[2].context = "k2"
  /\ trail[2].instance = C2 /\ trail[2].value = Str("v1")
  /\ trail[3].op = "removeResolver" /\ trail[3].context = "k2"
  /\ trail[4].op = "resolve" /\ trail[4].context = "k2"
  /\ trail[4].value = Thrown("Cannot find resolver for context Partial")
  /\ trail[5].op = "addResolver" /\ trail[5].context = "k2"
  /\ trail[5].resolver = Fn("f")
  /\ trail[6].op = "resolve" /\ trail[6].context = "k2"
  /\ trail[6].value = Str("v1")

\* The requiredContexts that count for instance n: its own, else its class's.
RequiredOf(n) ==
  IF requiredContexts.own[n].present THEN requiredContexts.own[n]
  ELSE requiredContexts.class

\* The listed keys without a match reachable from n, in list order.
Unmatched(list, n) ==
  SelectSeq(list, LAMBDA k : \A m \in Reachable(n) : ~Matches(k, m))

\* What a check of instance n must yield: nothing when every listed key has
\* a match (or there is no list), else the error naming the unmatched keys.
CheckYields(v, n) ==
  LET required == RequiredOf(n)
      unmatched == IF required.present THEN Unmatched(required.list, n)
                   ELSE <<>>
  IN IF unmatched = <<>>
       THEN v = Undefined
       ELSE v = Thrown("Missing required contexts for instance of class 'Model': "
                       \o JoinNames(unmatched))

\* C9: checkRequired throws exactly when a listed key has no match reachable
\* from the instance, naming exactly the unmatched keys in list order; a key
\* with a resolver in the ancestry is not reported, whatever its producer
\* returns; without a list nothing happens.  Stated of both checkRequired
\* functions of the repository.
C9_AsStated ==
  last.op \in {"checkRequired", "checkRequired (part_000)"} =>
    CheckYields(last.value, last.instance)

\* C9 of the checkRequired of src/index.ts alone.
C9_IndexTs ==
  last.op = "checkRequired" => CheckYields(last.value, last.instance)

\* The checkRequired of unnamed/part_000 threw although every listed key
\* has a resolver in the ancestry.
C9_Witness ==
  /\ last.op = "checkRequired (part_000)"
  /\ last.value.type = "error"
  /\ RequiredOf(last.instance).present
  /\ Unmatched(RequiredOf(last.instance).list, last.instance) = <<>>

\* The matching instances at the least distance from start.
NearestMatches(k, start) ==
  {m \in Reachable(start) : Matches(k, m) /\ NoNearerMatch(k, start, m)}

\* C11: tie-break among matches at the same depth.  When two or more
\* matching instances lie at the same least distance from the start, the
\* lookup returns the match of the one enqueued first, that is the first of
\* them in the order in which parent edges are enumerated; for a start whose
\* context is [P1, P2] with both matching (and the start not), that is P1.
C11_TieBreak ==
  (last.op \in Lookups
   /\ Cardinality(NearestMatches(last.context, last.instance)) >= 2) =>
    /\ MatchedAt = FirstMatch(last.context, last.instance)
    /\ IsMatchAt(last.resolver, last.context, MatchedAt)
    /\ \A m \in NearestMatches(last.context, last.instance) :
         Position(RefOrder(last.instance), MatchedAt)
           <= Position(RefOrder(last.instance), m)
    /\ (/\ context[last.instance].array
        /\ Len(context[last.instance].nodes) = 2
        /\ ~Matches(last.context, last.instance)
        /\ Matches(last.context, context[last.instance].nodes[1])
        /\ Matches(last.context, context[last.instance].nodes[2])) =>
         /\ MatchedAt = context[last.instance].nodes[1]
         /\ IsMatchAt(last.resolver, last.context,
                      context[last.instance].nodes[1])

\* The start's context is [P1, P2], both have the key as contextType, P2
\* has the smaller number, and the lookup returned P1.
C11_Witness ==
  /\ last.op = "resolve"
  /\ context[last.instance].array
  /\ Len(context[last.instance].nodes) = 2
  /\ LET P1 == context[last.instance].nodes[1]
         P2 == context[last.instance].nodes[2]
     IN /\ P2 < P1
        /\ contextType[P1] = last.context
        /\ contextType[P2] = last.context
        /\ ~Matches(last.context, last.instance)
        /\ last.value = Obj(P1)

\* The recorded findResolver calls that matched by contextType, and the
\* instance each matched at: the last one it examined.
TypeMatched ==
  {i \in 1..Len(trail) :
     /\ trail[i].op = "findResolver"
     /\ trail[i].resolver # Null
     /\ TypeMatches(trail[i].context, trail[i].list[Len(trail[i].list)])}

MatchedInstance(i) == trail[i].list[Len(trail[i].list)]

\* C12: memoized self-type producer.  All findResolver calls that match at
\* an instance M by contextType, for whatever key and from whatever start,
\* with whatever calls in between, return one and the same producer object,
\* and that producer returns M; every entry of the cache maps an instance
\* to a producer that returns that instance.
C12_Memoized ==
  /\ \A i \in TypeMatched :
       /\ Call(trail[i].resolver) = Obj(MatchedInstance(i))
       /\ \A j \in TypeMatched :
            MatchedInstance(i) = MatchedInstance(j) =>
              trail[i].resolver = trail[j].resolver
       /\ contextTypeResolversCache[MatchedInstance(i)] = trail[i].resolver
  /\ \A n \in Nodes :
       contextTypeResolversCache[n] # Null =>
         Call(contextTypeResolversCache[n]) = Obj(n)

\* Two lookups, of two different keys and from two different starts, with
\* an addResolver between them, matched at the same typed instance and
\* returned the same producer.
C12_Witness ==
  /\ Len(trail) = 3
  /\ 1 \in TypeMatched /\ 3 \in TypeMatched
  /\ trail[2].op = "addResolver"
  /\ trail[1].context # trail[3].context
  /\ trail[1].instance # trail[3].instance
  /\ MatchedInstance(1) = MatchedInstance(3)
  /\ trail[1].resolver = trail[3].resolver

\* The entries of the table of n for key k.
EntriesFor(n, k) == {e \in contextResolvers[n].resolvers : e.context = k}

\* C13: narrowest key first inside one table.  findResolver(K) on a table
\* returns the producer of the entry for K when there is one; the producer
\* of an entry for a broader key of K's parent chain is returned only when
\* neither K nor any key between them has an entry, and of such keys the
\* nearest to K decides; null is returned when no key of the chain has one.
C13_NarrowestFirst ==
  (trail # <<>> /\ Latest.op = "findResolver") =>
    LET n == Latest.instance
        chain == KeyChain(Latest.context)
        held == {i \in 1..Len(chain) : EntriesFor(n, chain[i]) # {}}
    IN IF held = {}
         THEN Latest.resolver = Null
         ELSE LET first == CHOOSE i \in held : \A j \in held : i <= j
              IN EntriesFor(n, chain[first])
                   = {[context |-> chain[first], resolver |-> Latest.resolver]}

\* The table holds entries for the partial key k2 and for its parent k1,
\* with different producers; findResolver(k2) returned k2's.
C13_Witness ==
  /\ Len(trail) >= 2
  /\ Latest.op = "findResolver"
  /\ Latest.context = "k2"
  /\ EntriesFor(Latest.instance, "k2")
       = {[context |-> "k2", resolver |-> Latest.resolver]}
  /\ \E e \in EntriesFor(Latest.instance, "k1") :
       e.resolver # Latest.resolver

Checks == {"checkRequired", "checkRequired (part_000)"}

\* The step is a call of op: the caller was idle and `last` now holds it.
Called(ops) == last.op = "idle" /\ last'.op \in ops

\* The instances whose cache entry the step changed.
CacheChanged ==
  {n \in Nodes : contextTypeResolversCache'[n] # contextTypeResolversCache[n]}

\* The step left the instance graph and every resolver table as they were.
GraphAndTablesKept ==
  /\ context' = context
  /\ contextType' = contextType
  /\ contextResolvers' = contextResolvers
  /\ requiredContexts' = requiredContexts

\* A lookup changes the cache by at most one entry, a new one, for the
\* instance it matched at by contextType.
LookupFrame ==
  Called(Lookups) =>
    /\ GraphAndTablesKept
    /\ Cardinality(CacheChanged) <= 1
    /\ \A n \in CacheChanged :
         /\ contextTypeResolversCache[n] = Null
         /\ TypeMatches(last'.context, n)
         /\ n = FirstMatch(last'.context, last'.instance)
         /\ contextTypeResolversCache'[n] = last'.resolver

\* addResolver(K, f) and removeResolver(K) on the table of one instance
\* change the entry for K in that table and nothing else.
MutationFrame ==
  Called({"addResolver", "removeResolver"}) =>
    LET n == last'.instance
        k == last'.context
    IN /\ context' = context
       /\ contextType' = contextType
       /\ requiredContexts' = requiredContexts
       /\ contextTypeResolversCache' = contextTypeResolversCache
       /\ \A m \in Nodes \ {n} : contextResolvers'[m] = contextResolvers[m]
       /\ contextResolvers'[n].present
       /\ {e \in contextResolvers'[n].resolvers : e.context # k}
            = {e \in contextResolvers[n].resolvers : e.context # k}
       /\ {e \in contextResolvers'[n].resolvers : e.context = k}
            = (IF last'.op = "addResolver"
                 THEN {[context |-> k, resolver |-> last'.resolver]}
                 ELSE {})
       /\ (/\ last'.op = "removeResolver"
           /\ \A e \in contextResolvers[n].resolvers : e.context # k) =>
            contextResolvers' = contextResolvers

\* C14 as stated: findResolver, resolve, resolveMaybe and checkRequired
\* leave graph and tables unchanged and change the cache by at most one
\* entry per call, only on a self-type match; addResolver and removeResolver
\* change only the entry for K in their table.
C14_AsStated ==
  [][/\ LookupFrame
     /\ MutationFrame
     /\ Called(Checks) =>
          /\ GraphAndTablesKept
          /\ Cardinality(CacheChanged) <= 1
          /\ \A n \in CacheChanged :
               \E k \in Range(RequiredOf(last'.instance).list) :
                 TypeMatches(k, n)]_vars

\* C14 (amended): frame of the operations.  findResolver, resolve and
\* resolveMaybe leave graph and tables unchanged and change the cache by at
\* most one entry per call, only on a self-type match; checkRequired leaves
\* graph and tables unchanged and changes the cache by at most one entry per
\* listed key, each for an instance that key matches by contextType;
\* addResolver and removeResolver change only the entry for K in their
\* table; removeResolver of a key without entry changes nothing.
C14_Frame ==
  [][/\ LookupFrame
     /\ MutationFrame
     /\ Called(Checks) =>
          /\ GraphAndTablesKept
          /\ Cardinality(CacheChanged)
               <= Len(RequiredOf(last'.instance).list)
          /\ \A n \in CacheChanged :
               /\ contextTypeResolversCache[n] = Null
               /\ \E k \in Range(RequiredOf(last'.instance).list) :
                    /\ TypeMatches(k, n)
                    /\ n = FirstMatch(k, last'.instance)]_vars

\* addResolver has put an entry into the table of one instance while the
\* table of another instance holds an entry, which is still there.
C14_Witness ==
  /\ last.op = "addResolver"
  /\ EntriesFor(last.instance, last.context)
       = {[context |-> last.context, resolver |-> last.resolver]}
  /\ \E m \in Nodes \ {last.instance} :
       contextResolvers[m].resolvers # {}

\* The recorded calls that resolved: a resolve or resolveMaybe that found a
\* producer.
Resolved ==
  {i \in 1..Len(trail) :
     trail[i].op \in {"resolve", "resolveMaybe"} /\ trail[i].resolver # Null}

\* C15: the producer is called when the context is resolved.  Each resolve
\* or resolveMaybe that finds a producer invokes that producer exactly once
\* and returns what the invocation returns, whatever calls were made before
\* (a second resolve invokes the producer a second time); the producer it
\* invokes is the one of the first match; a resolve that finds none invokes
\* nothing; findResolver and the table's addResolver, removeResolver and
\* findResolver invoke no producer at all.
C15_InvokedOnce ==
  /\ \A i \in 1..Len(trail) :
       IF i \in Resolved
         THEN /\ trail[i].list = <<trail[i].resolver>>
              /\ trail[i].value = Call(trail[i].resolver)
         ELSE trail[i].list = <<>>
  /\ (trail # <<>> /\ Len(trail) \in Resolved) =>
       IsMatchAt(Latest.resolver, Latest.context,
                 FirstMatch(Latest.context, Latest.instance))

\* Two resolves of the same key from the same instance, one after the
\* other, found the same producer in the root's table; each invoked it once
\* and both returned its value.
C15_Witness ==
  /\ Len(trail) = 2
  /\ trail[1].op = "resolve" /\ trail[2].op = "resolve"
  /\ trail[1].context = trail[2].context
  /\ trail[1].instance = trail[2].instance
  /\ trail[1].resolver \in {Fn(p) : p \in Producers}
  /\ trail[1].resolver = trail[2].resolver
  /\ trail[1].list = <<trail[1].resolver>>
  /\ trail[2].list = <<trail[2].resolver>>
  /\ trail[1].value = trail[2].value

\* The instances the loop body has run for.
Iterated == [i \in 1..Len(trail) |-> trail[i].instance]

\* What holds while the loop runs and when it has returned: no instance is
\* examined twice, so the iterations are at most as many as the instances,
\* and all of them are within reach of the start; a call that returned has
\* returned null exactly when no instance within reach of the start matches.
LoopInvariant ==
  /\ \A i, j \in 1..Len(trail) : i # j => Iterated[i] # Iterated[j]
  /\ Len(trail) <= NumNodes
  /\ last.op \in {"for-of", "findResolver"} =>
       Range(Iterated) \subseteq Reachable(last.instance)
  /\ last.op = "findResolver" =>
       /\ last.examined = Iterated
       /\ (last.resolver = Null) <=>
            (\A m \in Reachable(last.instance) : ~Matches(last.context, m))
       /\ last.resolver = Null =>
            Range(Iterated) = Reachable(last.instance)

\* C16: findResolver terminates on every finite graph, cyclic ones
\* included.  Every findResolver call that is entered returns; each distinct
\* instance is examined at most once; when no instance on or reachable
\* through a cycle matches, the call returns null.
C16_Terminates ==
  /\ []LoopInvariant
  /\ (last.op = "for-of") ~> (last.op = "findResolver")

\* The start lies on a cycle through all instances, no instance matches, and
\* the call returned null after examining each instance once.
C16_Witness ==
  /\ last.op = "findResolver"
  /\ last.resolver = Null
  /\ \A n \in Nodes : Succ(n) \in ParentsOf(n)
  /\ \E n \in Nodes : n \in ParentsOf(n)
  /\ Len(trail) = NumNodes

\* The keys declared within reach of start: the contextTypes of the
\* instances and the keys of their table entries.
DeclaredKeys(start) ==
  {contextType[m] : m \in {x \in Reachable(start) : contextType[x] # NoKey}}
    \cup {e.context : e \in UNION {contextResolvers[m].resolvers :
                                    m \in Reachable(start)}}

\* The keys that are not k and not broader than k although related to it:
\* the keys narrower than k and the keys derived from a key of k's chain on
\* another branch.
NarrowerOrSibling(k) ==
  {c \in Keys : c \notin ChainOf(k) /\ ChainOf(c) \cap ChainOf(k) # {}}

\* C17: matching goes from a narrow key to its broader ancestors only.  A
\* producer a lookup of k returns is the closure of an instance whose
\* contextType is k or broader, or the producer of a table entry for k or a
\* broader key, never one declared for a narrower or a sibling key; when
\* all keys declared within reach are narrower than k or siblings of it,
\* findResolver returns null, resolveMaybe undefined and resolve throws.
C17_NarrowToBroad ==
  last.op \in Lookups =>
    /\ last.resolver # Null =>
         \/ /\ last.resolver = contextTypeResolversCache[MatchedAt]
            /\ contextType[MatchedAt] \in ChainOf(last.context)
         \/ \E e \in contextResolvers[MatchedAt].resolvers :
              /\ e.resolver = last.resolver
              /\ e.context \in ChainOf(last.context)
    /\ DeclaredKeys(last.instance) \subseteq NarrowerOrSibling(last.context) =>
         /\ last.resolver = Null
         /\ last.op = "resolve" => last.value = NotFound(last.context)
         /\ last.op = "resolveMaybe" => last.value = Undefined

\* Within reach of the start one instance has the partial key k2 as its
\* contextType and a table holds a resolver for k2; the lookup of the
\* parent key k1 returned null.
C17_Witness ==
  /\ last.op = "findResolver"
  /\ last.context = "k1"
  /\ last.resolver = Null
  /\ \E m \in Reachable(last.instance) : contextType[m] = "k2"
  /\ \E m \in Reachable(last.instance) :
       EntriesFor(m, "k2") # {}

====
